---- MODULE Spec2Model ----
(***************************************************************************)
(* Model of the tensor pre/post-processing helpers (src/lib/onnxHelpers.ts)*)
(* and of the editor request builders (src/routes/editor/editorModule.ts). *)
(*                                                                         *)
(* Every exported function is one action: it draws its arguments from a    *)
(* bounded set, runs the translated body and records the outcome (a return *)
(* value or a thrown error) together with the messages posted to the       *)
(* worker.  JavaScript indices are 0-based; sequences here are 1-based, so *)
(* buffer index i of the source is position i + 1 of the sequence.         *)
(*                                                                         *)
(* The home page (src/routes/+page.svelte) is modelled apart, under        *)
(* UploadSpec and PageSpec: one action per callback of an image selection, *)
(* acting on the three image stores, the modal queue and the navigations.  *)
(***************************************************************************)
EXTENDS Integers, Sequences, FiniteSets, TLC

VARIABLES pc, op, args, result, posted,
          uploadedImgBase64, uploadedImgFileName, uploadedImgTargetRes,
          modalStore, selections, navigations

\* the state of the home page: the three image stores, the queue of the modal
\* store, the image selections under way and the navigations triggered so far
pageVars == <<uploadedImgBase64, uploadedImgFileName, uploadedImgTargetRes,
              modalStore, selections, navigations>>

vars == <<pc, op, args, result, posted, pageVars>>

(***************************************************************************)
(* Bounds of the model.                                                    *)
(***************************************************************************)
\* images handed to the codec functions have at most MaxPixels pixels
MaxPixels == 6
\* batch sizes 1..MaxBatch are tried for reshapeBufferToNCHW
MaxBatch == 2
\* mask grids handed to booleanMaskToUint8Buffer have at most MaxMaskCells cells
MaxMaskCells == 6
\* the brush mask of an editor state has at most MaxBrushCells cells
MaxBrushCells == 4
\* the image of an editor state has at most MaxEditorPixels pixels
MaxEditorPixels == 2
\* an editor state holds at most MaxClicks clicked positions
MaxClicks == 2
\* images handed to getResizedImgData are at most MaxSide wide and high
MaxSide == 22
\* long sides 1..MaxLongSide are asked of getResizedImgData
MaxLongSide == 11

(***************************************************************************)
(* JavaScript values.                                                      *)
(***************************************************************************)
\* the value a typed-array read past the end yields
Undefined == -1

\* the absent case of an optional object (currentImgEmbedding: ... | undefined)
Absent == <<>>

\* typed-array element read: buf[i]
Get(buf, i) == IF i >= 0 /\ i < Len(buf) THEN buf[i + 1] ELSE Undefined

\* conversion on a store into a Uint8Array: undefined -> NaN -> 0, else modulo 2^8
ToUint8(v) == IF v = Undefined THEN 0 ELSE v % 256

\* conversion on a store into a Uint8ClampedArray
ToUint8Clamped(v) ==
    IF v = Undefined THEN 0 ELSE IF v < 0 THEN 0 ELSE IF v > 255 THEN 255 ELSE v

\* the greatest element of a non-empty set of integers
Max(S) == CHOOSE x \in S : \A y \in S : y <= x

\* A loop of stores into a fresh typed array of n elements: iteration t (from
\* 0, in the order the loop nest runs) executes buf[idx[t]] = val[t].  An
\* element keeps the value of the last store to it, a store outside the buffer
\* is ignored, and an element never stored to stays 0.
StoreLoop(n, idx, val) ==
    [k \in 1..n |->
        LET stores == {t \in DOMAIN idx : idx[t] = k - 1}
        IN IF stores = {} THEN 0 ELSE val[Max(stores)]]

Returned(v) == [status |-> "returned", value |-> v]

Threw(e) == [status |-> "threw", error |-> e]

(***************************************************************************)
(* onnxHelpers.ts: imgDataToRGBArray                                       *)
(***************************************************************************)
\* the loop over the pixels, three stores to an iteration: store t is the
\* one of channel t % 3 in iteration i = t \div 3
imgDataToRGBArrayLoop(pixels, n) ==
    LET idx == [t \in 0..(n * 3 - 1) |-> (t \div 3) * 3 + (t % 3)]
        val == [t \in 0..(n * 3 - 1) |->
                   ToUint8(Get(pixels, (t \div 3) * 4 + (t % 3)))]
    IN StoreLoop(n * 3, idx, val)

imgDataToRGBArray(imgData) ==
    [rgbArray |-> imgDataToRGBArrayLoop(imgData.data, imgData.width * imgData.height),
     width |-> imgData.width,
     height |-> imgData.height]

(***************************************************************************)
(* onnxHelpers.ts: reshapeBufferToNCHW                                     *)
(***************************************************************************)
\* mutation: the output keeps the interleaved order inside a batch slot
indexInNCHW_interleaved(b, c, i, numChannels, imageWidth, imageHeight) ==
    b * numChannels * imageWidth * imageHeight + i * numChannels + c

indexInNCHW(b, c, i, numChannels, imageWidth, imageHeight) ==
    b * numChannels * imageWidth * imageHeight + c * imageWidth * imageHeight + i

indexInRGB(c, i, numChannels) == i * numChannels + c

\* the three nested loops: i outermost, then c, then b
reshapeBufferToNCHW(rgbBuffer, batchSize, numChannels, imageWidth, imageHeight) ==
    LET I(t) == t \div (numChannels * batchSize)
        C(t) == (t \div batchSize) % numChannels
        B(t) == t % batchSize
        N == imageWidth * imageHeight * numChannels * batchSize
        idx == [t \in 0..(N - 1) |->
                   indexInNCHW(B(t), C(t), I(t), numChannels, imageWidth, imageHeight)]
        val == [t \in 0..(N - 1) |->
                   ToUint8(Get(rgbBuffer, indexInRGB(C(t), I(t), numChannels)))]
    IN StoreLoop(batchSize * numChannels * imageWidth * imageHeight, idx, val)

(***************************************************************************)
(* onnxHelpers.ts: reshapeCHWtoHWC                                         *)
(***************************************************************************)
\* mutation: rows are strided by the height instead of the width
chwIndex_heightStride(c, h, w, width, height) == c * height * width + h * height + w

chwIndex(c, h, w, width, height) == c * height * width + h * width + w

hwcIndex(c, h, w, width, channels) == h * width * channels + w * channels + c

\* the three nested loops: c outermost, then h, then w
reshapeCHWtoHWC(chwBuffer, width, height, channels) ==
    LET C(t) == t \div (height * width)
        H(t) == (t \div width) % height
        W(t) == t % width
        N == channels * height * width
        idx == [t \in 0..(N - 1) |-> hwcIndex(C(t), H(t), W(t), width, channels)]
        val == [t \in 0..(N - 1) |->
                   ToUint8(Get(chwBuffer, chwIndex(C(t), H(t), W(t), width, height)))]
    IN StoreLoop(width * height * channels, idx, val)

(***************************************************************************)
(* editorModule.ts: RGB_CHW_array_to_imageData                             *)
(***************************************************************************)
\* the loop over the pixels, four stores to an iteration: store t is the one
\* of channel t % 4 in iteration i = t \div 4, the fourth storing 255
addAlphaLoop(dataRGBBufferReshaped, n) ==
    LET idx == [t \in 0..(n * 4 - 1) |-> (t \div 4) * 4 + (t % 4)]
        val == [t \in 0..(n * 4 - 1) |->
                   IF t % 4 = 3 THEN ToUint8Clamped(255)
                   ELSE ToUint8Clamped(Get(dataRGBBufferReshaped,
                                           (t \div 4) * 3 + (t % 4)))]
    IN StoreLoop(n * 4, idx, val)

\* new ImageData(data, width, height)
NewImageData(data, width, height) ==
    [data |-> data, width |-> width, height |-> height]

RGB_CHW_array_to_imageData(imageDataRGB, img_height, img_width) ==
    LET dataRGBBufferReshaped == reshapeCHWtoHWC(imageDataRGB, img_width, img_height, 3)
    IN NewImageData(
           addAlphaLoop(dataRGBBufferReshaped, img_height * img_width),
           img_width, img_height)


(***************************************************************************)
(* Mask grids: boolean[][] as a sequence of rows.  A cell holds "true" or  *)
(* "false"; reading a cell past the end of a row yields "undefined".       *)
(***************************************************************************)
Truthy(v) == v = "true"

\* row[x] of a JavaScript array
Cell(row, x) == IF x >= 0 /\ x < Len(row) THEN row[x + 1] ELSE "undefined"

(***************************************************************************)
(* onnxHelpers.ts: booleanMaskToUint8Buffer                                *)
(***************************************************************************)
\* mutation: the comment's "boolean to uint8" reading, drawn cells bright
maskByte_notInverted(v) == IF Truthy(v) THEN 255 ELSE 0

maskByte(v) == IF Truthy(v) THEN 0 ELSE 255

\* the two nested loops: i outermost, then j
booleanMaskLoop(maskArray, height, width) ==
    LET idx == [t \in 0..(height * width - 1) |-> (t \div width) * width + (t % width)]
        val == [t \in 0..(height * width - 1) |->
                   ToUint8(maskByte(Cell(maskArray[(t \div width) + 1], t % width)))]
    IN StoreLoop(height * width, idx, val)

\* maskArray[0].length throws a TypeError on a grid without rows
booleanMaskToUint8Buffer(maskArray) ==
    IF Len(maskArray) = 0 THEN Threw("TypeError")
    ELSE LET height == Len(maskArray)
             width == Len(maskArray[1])
         IN Returned(booleanMaskLoop(maskArray, height, width))

(***************************************************************************)
(* editorModule.ts: createEmptyMaskArray and the mask combination of       *)
(* runInpainting                                                           *)
(***************************************************************************)
createEmptyMaskArray(width, height) == [y \in 1..height |-> [x \in 1..width |-> "false"]]

\* mutation: the masks are intersected instead of united
orCell_and(val, other) == IF Truthy(val) THEN other ELSE val

\* val || other: the left operand when it is truthy, else the right one
orCell(val, other) == IF Truthy(val) THEN val ELSE other

\* maskSAMDilated[y][x] where row y exists (the other case is combineThrows)
samCell(maskSAMDilated, y, x) ==
    IF y >= 0 /\ y < Len(maskSAMDilated) THEN Cell(maskSAMDilated[y + 1], x)
    ELSE "undefined"

\* maskSAMDilated[y][x] is evaluated only for a falsy brush cell; it throws a
\* TypeError when maskSAMDilated has no row y
combineThrows(maskBrush, maskSAMDilated) ==
    \E y \in 1..Len(maskBrush) : \E x \in 1..Len(maskBrush[y]) :
        /\ ~Truthy(maskBrush[y][x])
        /\ y > Len(maskSAMDilated)

maskArrayCombined(maskBrush, maskSAMDilated) ==
    IF combineThrows(maskBrush, maskSAMDilated) THEN Threw("TypeError")
    ELSE Returned(
             [y \in 1..Len(maskBrush) |->
                 [x \in 1..Len(maskBrush[y]) |->
                     orCell(maskBrush[y][x], samCell(maskSAMDilated, y - 1, x - 1))]])

(***************************************************************************)
(* editorModule.ts: runInpainting                                          *)
(***************************************************************************)
\* the message handed to worker.postMessage
inpaintingMessage(imageNCHWBuffer, maskUInt8Buffer, imgData) ==
    [type |-> "INPAINTING_RUN",
     data |-> [imageTensorData |->
                   [data |-> imageNCHWBuffer,
                    dims |-> <<1, 3, imgData.height, imgData.width>>],
               maskTensorData |->
                   [data |-> maskUInt8Buffer,
                    dims |-> <<1, 1, imgData.height, imgData.width>>]]]

\* the outcome of runInpainting: the messages posted and how the call ended
runInpainting(currentEditorState) ==
    LET imgData == currentEditorState.imgData
        imageNCHWBuffer == reshapeBufferToNCHW(imgDataToRGBArray(imgData).rgbArray,
                                               1, 3, imgData.width, imgData.height)
        combined == maskArrayCombined(currentEditorState.maskBrush,
                                      currentEditorState.maskSAMDilated)
        maskUInt8Buffer == booleanMaskToUint8Buffer(combined.value)
    IN IF combined.status = "threw"
       THEN [posted |-> <<>>, result |-> combined, combined |-> Absent]
       ELSE IF maskUInt8Buffer.status = "threw"
       THEN [posted |-> <<>>, result |-> maskUInt8Buffer, combined |-> <<combined.value>>]
       ELSE [posted |-> <<inpaintingMessage(imageNCHWBuffer, maskUInt8Buffer.value, imgData)>>,
             result |-> Returned(Undefined),
             combined |-> <<combined.value>>]

(***************************************************************************)
(* editorModule.ts: createDecoderInputDict                                 *)
(***************************************************************************)
RECURSIVE GCD(_, _)
GCD(a, b) == IF b = 0 THEN a ELSE GCD(b, a % b)

\* a non-negative number n / d in lowest terms.  The source computes with
\* doubles; coordinates are kept as exact quotients, which tells scaled points
\* apart at least as well
Quotient(n, d) == [num |-> n \div GCD(n, d), den |-> d \div GCD(n, d)]

\* the numeric literal 0
Zero == Quotient(0, 1)

\* (x / imgData.width) * resizedImgWidth, (y / imgData.height) * resizedImgHeight
coordsToResizedImgScale(x, y, imgData, resizedImgWidth, resizedImgHeight) ==
    [x |-> Quotient(x * resizedImgWidth, imgData.width),
     y |-> Quotient(y * resizedImgHeight, imgData.height)]

\* mutation: a negative click is labelled like the padding point
inputLabel_signed(type) == IF type = "positive" THEN 1 ELSE -1

inputLabel(type) == IF type = "positive" THEN 1 ELSE 0

\* Array.prototype.flat on an array of [x, y] pairs
RECURSIVE Flat(_)
Flat(pairs) == IF pairs = <<>> THEN <<>> ELSE Head(pairs) \o Flat(Tail(pairs))

\* mutation: optional chaining instead of the non-null assertion
image_embeddings_optional(currentImgEmbedding) ==
    IF currentImgEmbedding = Absent THEN Returned([data |-> Absent, dims |-> Absent])
    ELSE Returned([data |-> currentImgEmbedding[1].data,
                   dims |-> currentImgEmbedding[1].dims])

\* currentImgEmbedding!.data and !.dims: the assertion is erased at compile
\* time, so reading a field of undefined throws a TypeError
image_embeddings(currentImgEmbedding) ==
    IF currentImgEmbedding = Absent THEN Threw("TypeError")
    ELSE Returned([data |-> currentImgEmbedding[1].data,
                   dims |-> currentImgEmbedding[1].dims])

createDecoderInputDict(currentEditorState, resizedImgWidth, resizedImgHeight) ==
    LET clicked == currentEditorState.clickedPositions
        imgData == currentEditorState.imgData
        inputPoint == [k \in 1..Len(clicked) |->
                          coordsToResizedImgScale(clicked[k].x, clicked[k].y, imgData,
                                                  resizedImgWidth, resizedImgHeight)]
        inputLabels == [k \in 1..Len(clicked) |-> inputLabel(clicked[k].type)]
        onnxInputPoints ==
            Append([k \in 1..Len(inputPoint) |-> <<inputPoint[k].x, inputPoint[k].y>>],
                   <<Zero, Zero>>)
        paddedLabels == Append(inputLabels, -1)
        embedding == image_embeddings(currentEditorState.currentImgEmbedding)
    IN IF embedding.status = "threw" THEN embedding
       ELSE Returned(
                [image_embeddings |-> embedding.value,
                 point_coords |-> [data |-> Flat(onnxInputPoints),
                                   dims |-> <<1, Len(onnxInputPoints), 2>>],
                 point_labels |-> [data |-> paddedLabels,
                                   dims |-> <<1, Len(paddedLabels)>>],
                 mask_input |-> [data |-> [length |-> 256 * 256, fill |-> 0],
                                 dims |-> <<1, 1, 256, 256>>],
                 has_mask_input |-> [data |-> <<0>>, dims |-> <<1>>],
                 orig_im_size |-> [data |-> <<imgData.height, imgData.width>>,
                                   dims |-> <<2>>]])

(***************************************************************************)
(* JavaScript numbers: IEEE 754 binary64.  A positive normal double is     *)
(* [hi, mid, lo, e]: its 53-bit significand hi * 2^36 + mid * 2^18 + lo    *)
(* (hi has 17 bits, the first a one; mid and lo have 18) and the exponent  *)
(* e of the first bit, so that its value is significand * 2^(e - 52).      *)
(***************************************************************************)
RECURSIVE Pow2(_)
Pow2(s) == IF s = 0 THEN 1 ELSE 2 * Pow2(s - 1)

\* 2^18, the base of the significand's three parts
Limb == Pow2(18)

\* the least s with a * 2^s >= b
RECURSIVE ShiftUp(_, _)
ShiftUp(a, b) == IF a >= b THEN 0 ELSE 1 + ShiftUp(2 * a, b)

\* the greatest s with b * 2^s <= a (for a >= b)
RECURSIVE ShiftDown(_, _)
ShiftDown(a, b) == IF 2 * b > a THEN 0 ELSE 1 + ShiftDown(a, 2 * b)

\* the next double above x
NextUp(x) ==
    IF x.lo + 1 < Limb THEN [x EXCEPT !.lo = x.lo + 1]
    ELSE IF x.mid + 1 < Limb THEN [x EXCEPT !.lo = 0, !.mid = x.mid + 1]
    ELSE IF x.hi + 1 < Pow2(17) THEN [x EXCEPT !.lo = 0, !.mid = 0, !.hi = x.hi + 1]
    ELSE [hi |-> Pow2(16), mid |-> 0, lo |-> 0, e |-> x.e + 1]

\* round to nearest, ties to even: x holds the first 53 bits of the exact value,
\* guard is the bit after them, sticky tells whether a one follows the guard
RoundNearestEven(x, guard, sticky) ==
    IF guard = 1 /\ (sticky \/ x.lo % 2 = 1) THEN NextUp(x) ELSE x

\* a / b for positive integers below 2^12: the correctly rounded quotient, by
\* long division
Divide(a, b) ==
    LET up == ShiftUp(a, b)
        down == ShiftDown(a, b)
        aa == IF a < b THEN a * Pow2(up) ELSE a
        bb == IF a < b THEN b ELSE b * Pow2(down)
        n0 == aa * Pow2(16)
        n1 == (n0 % bb) * Limb
        n2 == (n1 % bb) * Limb
        n3 == (n2 % bb) * 2
    IN RoundNearestEven([hi |-> n0 \div bb, mid |-> n1 \div bb, lo |-> n2 \div bb,
                         e |-> IF a < b THEN -up ELSE down],
                        n3 \div bb, (n3 % bb) # 0)

\* t * x for a positive integer t below 2^12 and a double x: the correctly
\* rounded product
Times(t, x) ==
    LET p0 == x.lo * t
        p1 == (x.mid * t) + (p0 \div Limb)
        p2 == (x.hi * t) + (p1 \div Limb)
        s == ShiftDown(p2, Pow2(16))
        low == p0 % Limb
        middle == p1 % Limb
    IN RoundNearestEven(
           [hi |-> p2 \div Pow2(s),
            mid |-> (middle \div Pow2(s)) + ((p2 % Pow2(s)) * Pow2(18 - s)),
            lo |-> (low \div Pow2(s)) + ((middle % Pow2(s)) * Pow2(18 - s)),
            e |-> x.e + s],
           IF s = 0 THEN 0 ELSE (low \div Pow2(s - 1)) % 2,
           s >= 2 /\ (low % Pow2(s - 1)) # 0)

\* a natural number in three parts, a * 2^36 + b * 2^18 + c with b and c below
\* 2^18: the carries (or borrows) of the lower parts are moved up
Carry(a, b, c) ==
    LET b1 == b + (c \div Limb)
    IN [a |-> a + (b1 \div Limb), b |-> b1 % Limb, c |-> c % Limb]

\* m <= n for numbers in three parts
AtMost(m, n) ==
    \/ m.a < n.a
    \/ m.a = n.a /\ m.b < n.b
    \/ m.a = n.a /\ m.b = n.b /\ m.c <= n.c

\* one step of the long division by m: the next six bits of the quotient
\* st.q, taken from the remainder st.r (which is below m)
DivideStep(st, m) ==
    LET r64 == Carry(64 * st.r.a, 64 * st.r.b, 64 * st.r.c)
        d == CHOOSE d \in 0..63 :
                 /\ AtMost(Carry(d * m.a, d * m.b, d * m.c), r64)
                 /\ ~AtMost(Carry((d + 1) * m.a, (d + 1) * m.b, (d + 1) * m.c), r64)
    IN [q |-> Carry(64 * st.q.a, 64 * st.q.b, (64 * st.q.c) + d),
        r |-> Carry(r64.a - (d * m.a), r64.b - (d * m.b), r64.c - (d * m.c))]

RECURSIVE DivideSteps(_, _, _)
DivideSteps(st, m, n) ==
    IF n = 0 THEN st ELSE DivideSteps(DivideStep(st, m), m, n - 1)

\* t / x for a positive integer t below 2^12 and a double x: the correctly
\* rounded quotient.  With t scaled to 53 bits, the long division yields the
\* first 55 bits of the quotient (54 when t's significand is below x's)
Over(t, x) ==
    LET s == ShiftDown(t, 1)
        m == [a |-> x.hi, b |-> x.mid, c |-> x.lo]
        big == [a |-> t * Pow2(16 - s), b |-> 0, c |-> 0]
        q0 == IF AtMost(m, big) THEN 1 ELSE 0
        st == DivideSteps([q |-> [a |-> 0, b |-> 0, c |-> q0],
                           r |-> Carry(big.a - (q0 * m.a), -(q0 * m.b), -(q0 * m.c))],
                          m, 9)
        k == IF q0 = 1 THEN 4 ELSE 2
        rest == st.r.a # 0 \/ st.r.b # 0 \/ st.r.c # 0
    IN RoundNearestEven(
           [hi |-> st.q.a \div k,
            mid |-> (st.q.b \div k) + ((st.q.a % k) * (Limb \div k)),
            lo |-> (st.q.c \div k) + ((st.q.b % k) * (Limb \div k)),
            e |-> IF q0 = 1 THEN s - x.e ELSE s - x.e - 1],
           (st.q.c \div (k \div 2)) % 2,
           rest \/ (st.q.c % (k \div 2)) # 0)

\* Math.round(x) for a positive double below 2^16: the nearest integer, a tie
\* going up (the integer part plus the bit of weight 1/2)
MathRound(x) ==
    IF x.e < -1 THEN 0
    ELSE (x.hi \div Pow2(16 - x.e)) + ((x.hi \div Pow2(15 - x.e)) % 2)

(***************************************************************************)
(* onnxHelpers.ts: getResizedImgData                                       *)
(***************************************************************************)
\* Math.round(longSideLength * (side / longerSide))
scaledSide(longSideLength, side, longerSide) ==
    MathRound(Times(longSideLength, Divide(side, longerSide)))

\* the size given to the temporary canvas
resizedSize(img, longSideLength) ==
    IF img.width > img.height
    THEN [newWidth |-> longSideLength,
          newHeight |-> scaledSide(longSideLength, img.height, img.width)]
    ELSE [newWidth |-> scaledSide(longSideLength, img.width, img.height),
          newHeight |-> longSideLength]

\* getImageData throws an IndexSizeError for a canvas without pixels; otherwise
\* the canvas content (the browser's resampling of the image) goes through
\* imgDataToRGBArray, which keeps the canvas size and returns 3 bytes per pixel
getResizedImgData(img, longSideLength) ==
    LET size == resizedSize(img, longSideLength)
    IN IF size.newWidth = 0 \/ size.newHeight = 0 THEN Threw("IndexSizeError")
       ELSE Returned([rgbArray |-> [length |-> size.newWidth * size.newHeight * 3],
                      width |-> size.newWidth,
                      height |-> size.newHeight])

(***************************************************************************)
(* Inputs of the codec functions.                                          *)
(***************************************************************************)
\* the RGBA colours a pixel of an input image may have
Palette == {<<255, 0, 0, 255>>, <<10, 20, 30, 40>>}

\* the (width, height) pairs of the images tried
ImageSizes == {wh \in (1..MaxPixels) \X (1..MaxPixels) : wh[1] * wh[2] <= MaxPixels}

\* every well-formed RGBA image of the given size over the palette
ImagesOfSize(w, h) ==
    {[width |-> w, height |-> h,
      data |-> [k \in 1..(4 * w * h) |-> p[((k - 1) \div 4) + 1][((k - 1) % 4) + 1]]] :
        p \in [1..(w * h) -> Palette]}

\* every interleaved RGB (HWC) buffer of the given size over the palette
RGBBuffersOfSize(w, h) ==
    {[k \in 1..(3 * w * h) |-> p[((k - 1) \div 3) + 1][((k - 1) % 3) + 1]] :
        p \in [1..(w * h) -> Palette]}

\* a buffer with its last element dropped (-1), unchanged (0) or one element added (1)
Resized(buf, delta) ==
    IF delta < 0 THEN SubSeq(buf, 1, Len(buf) - 1)
    ELSE IF delta > 0 THEN Append(buf, 77)
    ELSE buf

LengthDeltas == {-1, 0, 1}


\* every H x W grid of booleans
RectGrids(h, w) == [1..h -> [1..w -> {"true", "false"}]]

\* the (height, width) pairs of the grids with at most n cells
GridSizes(n) == {hw \in (1..n) \X (1..n) : hw[1] * hw[2] <= n}

\* the (width, height) pairs of the images an editor state may hold
EditorImageSizes ==
    {wh \in (1..MaxEditorPixels) \X (1..MaxEditorPixels) : wh[1] * wh[2] <= MaxEditorPixels}

\* the image of an editor state of the given size: red and grey pixels alternate
EditorImage(w, h) ==
    [width |-> w, height |-> h,
     data |-> [k \in 1..(4 * w * h) |->
                  IF ((k - 1) \div 4) % 2 = 0
                  THEN <<255, 0, 0, 255>>[((k - 1) % 4) + 1]
                  ELSE <<10, 20, 30, 40>>[((k - 1) % 4) + 1]]]

\* ways maskSAMDilated may differ in shape from a grid of the brush mask's shape
ShapeDefects == {"none", "moreRows", "fewerRows", "longerRows", "shorterRows"}

Reshaped(grid, defect) ==
    CASE defect = "none" -> grid
      [] defect = "moreRows" -> Append(grid, [x \in 1..Len(grid[1]) |-> "true"])
      [] defect = "fewerRows" -> SubSeq(grid, 1, Len(grid) - 1)
      [] defect = "longerRows" -> [y \in 1..Len(grid) |-> Append(grid[y], "true")]
      [] defect = "shorterRows" ->
             [y \in 1..Len(grid) |-> SubSeq(grid[y], 1, Len(grid[y]) - 1)]

\* the coordinates a click may have on either axis
ClickCoords == {0, 1}

Clicks == [x : ClickCoords, y : ClickCoords, type : {"positive", "negative"}]

\* every click list of at most n points
ClickLists(n) == UNION {[1..len -> Clicks] : len \in 0..n}

\* the cached embedding: absent, or one of two tensors
Embeddings ==
    {Absent,
     <<[data |-> <<11, 12>>, dims |-> <<1, 2>>]>>,
     <<[data |-> <<7>>, dims |-> <<1, 1>>]>>}

\* the (width, height) pairs of the resized encoder input
ResizedSizes == {<<4, 2>>, <<3, 4>>}

\* the (width, height) pairs of the images resized
SourceSizes == ((1..MaxSide) \X (1..MaxSide)) \cup {<<2000, 1000>>, <<1000, 2000>>}

\* the long sides asked for; 1024 is the default
LongSides == (1..MaxLongSide) \cup {1024}

(***************************************************************************)
(* routes/+page.svelte: the home page.  A string is the sequence of its    *)
(* characters.  An image selection is a file dropped on the upload zone or *)
(* a click on an example image; its callbacks run one at a time, each to   *)
(* completion, in whatever order the browser delivers them.                *)
(***************************************************************************)
longsideResResizeThreshold == 2000

\* str.lastIndexOf(ch) for a single character: the 0-based index, -1 if none
lastIndexOf(str, ch) ==
    Max({j - 1 : j \in {k \in DOMAIN str : str[k] = ch}} \cup {-1})

\* str.substring(0, end): a negative end counts as 0
substring(str, end) == SubSeq(str, 1, IF end < 0 THEN 0 ELSE end)

\* what handleImageUpload stores as the file name: the name up to its last dot
uploadedName(name) == substring(name, lastIndexOf(name, "."))

\* getImgDataFromUrl: the last part of url.split('/')
imageName(url) == SubSeq(url, lastIndexOf(url, "/") + 2, Len(url))

\* mutation: only the width is compared with the threshold
exceedsThreshold_widthOnly(width, height) ==
    width > longsideResResizeThreshold

\* width > longsideResResizeThreshold || height > longsideResResizeThreshold
exceedsThreshold(width, height) ==
    width > longsideResResizeThreshold \/ height > longsideResResizeThreshold

\* x > 1 for a double x
GreaterThanOne(x) ==
    x.e > 0 \/ (x.e = 0 /\ (x.hi > Pow2(16) \/ x.mid > 0 \/ x.lo > 0))

\* let aspectRatio = width / height
aspectRatio(width, height) == Divide(width, height)

newWidth(width, height) ==
    IF GreaterThanOne(aspectRatio(width, height))
    THEN longsideResResizeThreshold
    ELSE MathRound(Times(longsideResResizeThreshold, aspectRatio(width, height)))

newHeight(width, height) ==
    IF GreaterThanOne(aspectRatio(width, height))
    THEN MathRound(Over(longsideResResizeThreshold, aspectRatio(width, height)))
    ELSE longsideResResizeThreshold

\* an image selection that has not started
NoSelection ==
    [pc |-> "idle", kind |-> "none", name |-> <<>>, data |-> "",
     decoded |-> Absent, response |-> "none"]

\* the entry goto(`${base}/editor`) adds to the navigations: the selection whose
\* callback navigates and the stores as the editor page finds them
Navigation(s, base64, fileName, targetRes) ==
    [by |-> s, uploadedImgBase64 |-> base64, uploadedImgFileName |-> fileName,
     uploadedImgTargetRes |-> targetRes]

(***************************************************************************)
(* Inputs of the home page.                                                *)
(***************************************************************************)
\* the image selections that may be under way at once
Selections == {1, 2}

\* the sizes of the files that decode as images
UploadSizes ==
    {<<640, 480>>, <<1, 2000>>, <<2000, 2000>>, <<2001, 2000>>, <<2000, 2001>>,
     <<3000, 3000>>, <<4000, 3000>>, <<4000, 3>>, <<1, 4095>>}

\* what the browser makes of a file: nothing (not an image), or its size
Decodings == {Absent} \cup {<<[width |-> wh[1], height |-> wh[2]]>> : wh \in UploadSizes}

\* the files dropped: "a.j", "b.c.p" and "n", each with its own content
Files ==
    {[name |-> nd[1], data |-> nd[2], decoded |-> d] :
        nd \in {<< <<"a", ".", "j">>, "data:a" >>,
                << <<"b", ".", "c", ".", "p">>, "data:b" >>,
                << <<"n">>, "data:n" >>},
        d \in Decodings}

\* the example images offered: their url, content and size
ExampleImages ==
    {[name |-> <<"/", "e", "/", "d", ".", "j">>, data |-> "data:d",
      decoded |-> <<[width |-> 640, height |-> 480]>>],
     [name |-> <<"/", "e", "/", "s", ".", "w">>, data |-> "data:s",
      decoded |-> <<[width |-> 4000, height |-> 3]>>]}

(***************************************************************************)
(* State machine: one call at a time, then its outcome is observed.        *)
(***************************************************************************)
NoArgs == [none |-> TRUE]

Init ==
    /\ pc = "idle"
    /\ op = "none"
    /\ args = NoArgs
    /\ result = Returned(0)
    /\ posted = <<>>
    /\ uploadedImgBase64 = Absent
    /\ uploadedImgFileName = <<>>
    /\ uploadedImgTargetRes = Absent
    /\ modalStore = <<>>
    /\ selections = [s \in Selections |-> NoSelection]
    /\ navigations = <<>>

\* imgDataToRGBArray(imgData); the source buffer may disagree with width * height * 4
Call_imgDataToRGBArray ==
    /\ pc = "idle"
    /\ \E wh \in ImageSizes : \E img \in ImagesOfSize(wh[1], wh[2]) :
       \E delta \in LengthDeltas :
         LET imgData == [img EXCEPT !.data = Resized(img.data, delta)]
         IN /\ args' = [imgData |-> imgData]
            /\ result' = Returned(imgDataToRGBArray(imgData))
    /\ op' = "imgDataToRGBArray"
    /\ pc' = "done"
    /\ UNCHANGED <<posted, pageVars>>

\* reshapeBufferToNCHW(rgbBuffer, batchSize, 3, imageWidth, imageHeight)
Call_reshapeBufferToNCHW ==
    /\ pc = "idle"
    /\ \E wh \in ImageSizes : \E rgbBuffer \in RGBBuffersOfSize(wh[1], wh[2]) :
       \E batchSize \in 1..MaxBatch :
         /\ args' = [rgbBuffer |-> rgbBuffer, batchSize |-> batchSize, numChannels |-> 3,
                     imageWidth |-> wh[1], imageHeight |-> wh[2]]
         /\ result' = Returned(reshapeBufferToNCHW(rgbBuffer, batchSize, 3, wh[1], wh[2]))
    /\ op' = "reshapeBufferToNCHW"
    /\ pc' = "done"
    /\ UNCHANGED <<posted, pageVars>>

\* reshapeCHWtoHWC(chwBuffer, width, height) with the default 3 channels; chwBuffer
\* is the planar form of an RGB buffer, possibly one element short or long
Call_reshapeCHWtoHWC ==
    /\ pc = "idle"
    /\ \E wh \in ImageSizes : \E rgbBuffer \in RGBBuffersOfSize(wh[1], wh[2]) :
       \E delta \in LengthDeltas :
         LET chwBuffer == Resized(reshapeBufferToNCHW(rgbBuffer, 1, 3, wh[1], wh[2]), delta)
         IN /\ args' = [chwBuffer |-> chwBuffer, width |-> wh[1], height |-> wh[2],
                        channels |-> 3, rgbBuffer |-> rgbBuffer, delta |-> delta]
            /\ result' = Returned(reshapeCHWtoHWC(chwBuffer, wh[1], wh[2], 3))
    /\ op' = "reshapeCHWtoHWC"
    /\ pc' = "done"
    /\ UNCHANGED <<posted, pageVars>>

\* RGB_CHW_array_to_imageData on the planar tensor of an image:
\* imgDataToRGBArray, then reshapeBufferToNCHW with batch 1, then back
Call_RGB_CHW_array_to_imageData ==
    /\ pc = "idle"
    /\ \E wh \in ImageSizes : \E imgData \in ImagesOfSize(wh[1], wh[2]) :
         LET imageDataRGB == reshapeBufferToNCHW(imgDataToRGBArray(imgData).rgbArray,
                                                 1, 3, imgData.width, imgData.height)
         IN /\ args' = [imgData |-> imgData, imageDataRGB |-> imageDataRGB,
                        img_height |-> imgData.height, img_width |-> imgData.width]
            /\ result' = Returned(RGB_CHW_array_to_imageData(imageDataRGB,
                                      imgData.height, imgData.width))
    /\ op' = "RGB_CHW_array_to_imageData"
    /\ pc' = "done"
    /\ UNCHANGED <<posted, pageVars>>

\* booleanMaskToUint8Buffer(maskArray) on a rectangular boolean grid
Call_booleanMaskToUint8Buffer ==
    /\ pc = "idle"
    /\ \E hw \in GridSizes(MaxMaskCells) : \E maskArray \in RectGrids(hw[1], hw[2]) :
         /\ args' = [maskArray |-> maskArray]
         /\ result' = booleanMaskToUint8Buffer(maskArray)
    /\ op' = "booleanMaskToUint8Buffer"
    /\ pc' = "done"
    /\ UNCHANGED <<posted, pageVars>>

\* runInpainting(currentEditorState, worker): the brush mask is a rectangular
\* grid; the image size and the shape of maskSAMDilated are whatever the caller
\* put into the state
Call_runInpainting ==
    /\ pc = "idle"
    /\ \E wh \in EditorImageSizes : \E hw \in GridSizes(MaxBrushCells) :
       \E maskBrush \in RectGrids(hw[1], hw[2]) : \E sam \in RectGrids(hw[1], hw[2]) :
       \E defect \in ShapeDefects :
         LET currentEditorState ==
                 [maskBrush |-> maskBrush,
                  maskSAM |-> sam,
                  maskSAMDilated |-> Reshaped(sam, defect),
                  clickedPositions |-> <<>>,
                  imgData |-> EditorImage(wh[1], wh[2]),
                  currentImgEmbedding |-> Absent]
             outcome == runInpainting(currentEditorState)
         IN /\ args' = [currentEditorState |-> currentEditorState,
                        maskArrayCombined |-> outcome.combined]
            /\ result' = outcome.result
            /\ posted' = outcome.posted
    /\ op' = "runInpainting"
    /\ pc' = "done"
    /\ UNCHANGED pageVars

\* createDecoderInputDict(currentEditorState, resizedImgWidth, resizedImgHeight)
Call_createDecoderInputDict ==
    /\ pc = "idle"
    /\ \E wh \in EditorImageSizes : \E clicked \in ClickLists(MaxClicks) :
       \E embedding \in Embeddings : \E resized \in ResizedSizes :
         LET currentEditorState ==
                 [maskBrush |-> createEmptyMaskArray(wh[1], wh[2]),
                  maskSAM |-> createEmptyMaskArray(wh[1], wh[2]),
                  maskSAMDilated |-> createEmptyMaskArray(wh[1], wh[2]),
                  clickedPositions |-> clicked,
                  imgData |-> EditorImage(wh[1], wh[2]),
                  currentImgEmbedding |-> embedding]
         IN /\ args' = [currentEditorState |-> currentEditorState,
                        resizedImgWidth |-> resized[1],
                        resizedImgHeight |-> resized[2]]
            /\ result' = createDecoderInputDict(currentEditorState, resized[1], resized[2])
    /\ op' = "createDecoderInputDict"
    /\ pc' = "done"
    /\ UNCHANGED <<posted, pageVars>>

\* getResizedImgData(img, longSideLength); only the size of img matters to the
\* size of the result
Call_getResizedImgData ==
    /\ pc = "idle"
    /\ \E wh \in SourceSizes : \E longSideLength \in LongSides :
         /\ args' = [img |-> [width |-> wh[1], height |-> wh[2]],
                     longSideLength |-> longSideLength]
         /\ result' = getResizedImgData([width |-> wh[1], height |-> wh[2]],
                                        longSideLength)
    /\ op' = "getResizedImgData"
    /\ pc' = "done"
    /\ UNCHANGED <<posted, pageVars>>

\* the caller has seen the outcome; the next call starts from a clean slate
Return ==
    /\ pc = "done"
    /\ pc' = "idle"
    /\ op' = "none"
    /\ args' = NoArgs
    /\ result' = Returned(0)
    /\ posted' = <<>>
    /\ UNCHANGED pageVars

Next ==
    \/ Call_imgDataToRGBArray
    \/ Call_reshapeBufferToNCHW
    \/ Call_reshapeCHWtoHWC
    \/ Call_RGB_CHW_array_to_imageData
    \/ Call_booleanMaskToUint8Buffer
    \/ Call_runInpainting
    \/ Call_createDecoderInputDict
    \/ Call_getResizedImgData
    \/ Return

Spec == Init /\ [][Next]_vars

\* the pixel/tensor codec alone
CodecNext ==
    \/ Call_imgDataToRGBArray
    \/ Call_reshapeBufferToNCHW
    \/ Call_reshapeCHWtoHWC
    \/ Call_RGB_CHW_array_to_imageData
    \/ Call_booleanMaskToUint8Buffer
    \/ Return

CodecSpec == Init /\ [][CodecNext]_vars

\* the request builders of the editor alone
EditorNext ==
    \/ Call_runInpainting
    \/ Call_createDecoderInputDict
    \/ Return

EditorSpec == Init /\ [][EditorNext]_vars

\* the encoder preprocessing alone
ResizeNext ==
    \/ Call_getResizedImgData
    \/ Return

ResizeSpec == Init /\ [][ResizeNext]_vars

(***************************************************************************)
(* State machine of the home page: one action per callback.                *)
(***************************************************************************)
callVars == <<pc, op, args, result, posted>>

\* handleImageUpload(event), lines 141-149 and 187: without a file it returns;
\* with one it stores the file name and starts the FileReader
handleImageUpload(s) ==
    /\ selections[s].pc = "idle"
    /\ \/ /\ selections' = [selections EXCEPT ![s] =
                               [NoSelection EXCEPT !.pc = "returned", !.kind = "upload"]]
          /\ UNCHANGED uploadedImgFileName
       \/ \E uploadedImageFile \in Files :
            /\ uploadedImgFileName' = uploadedName(uploadedImageFile.name)
            /\ selections' = [selections EXCEPT ![s] =
                                 [pc |-> "reading", kind |-> "upload",
                                  name |-> uploadedImageFile.name,
                                  data |-> uploadedImageFile.data,
                                  decoded |-> uploadedImageFile.decoded,
                                  response |-> "none"]]
    /\ UNCHANGED <<uploadedImgBase64, uploadedImgTargetRes, modalStore, navigations,
                   callVars>>

\* reader.onload, lines 150-153: the content is stored, then the callback waits
\* for getImageResolution
reader_onload(s) ==
    /\ selections[s].pc = "reading"
    /\ uploadedImgBase64' = <<selections[s].data>>
    /\ selections' = [selections EXCEPT ![s].pc = "resolving"]
    /\ UNCHANGED <<uploadedImgFileName, uploadedImgTargetRes, modalStore, navigations,
                   callVars>>

\* img.onerror of getImageResolution: the promise is rejected and the rest of
\* reader.onload never runs
getImageResolution_onerror(s) ==
    /\ selections[s].pc = "resolving"
    /\ selections[s].decoded = Absent
    /\ selections' = [selections EXCEPT ![s].pc = "failed"]
    /\ UNCHANGED <<uploadedImgBase64, uploadedImgFileName, uploadedImgTargetRes,
                   modalStore, navigations, callVars>>

\* img.onload of getImageResolution and the rest of reader.onload, lines
\* 154-185: the size is stored; a large image queues the confirm modal, any
\* other goes to the editor at once
getImageResolution_onload(s) ==
    /\ selections[s].pc = "resolving"
    /\ selections[s].decoded # Absent
    /\ LET width == selections[s].decoded[1].width
           height == selections[s].decoded[1].height
       IN /\ uploadedImgTargetRes' = <<[width |-> width, height |-> height]>>
          /\ IF exceedsThreshold(width, height)
             THEN /\ modalStore' = Append(modalStore,
                                          [by |-> s,
                                           newWidth |-> newWidth(width, height),
                                           newHeight |-> newHeight(width, height)])
                  /\ selections' = [selections EXCEPT ![s].pc = "modal"]
                  /\ UNCHANGED navigations
             ELSE /\ navigations' = Append(navigations,
                                           Navigation(s, uploadedImgBase64,
                                                      uploadedImgFileName,
                                                      uploadedImgTargetRes'))
                  /\ selections' = [selections EXCEPT ![s].pc = "navigated"]
                  /\ UNCHANGED modalStore
    /\ UNCHANGED <<uploadedImgBase64, uploadedImgFileName, callVars>>

\* response of the confirm modal, lines 175-180; the modal component answers
\* the modal at the head of the queue, once, and takes it off the queue
modal_response(s) ==
    /\ modalStore # <<>>
    /\ Head(modalStore).by = s
    /\ \E resize \in BOOLEAN :
         /\ uploadedImgTargetRes' =
                IF resize
                THEN <<[width |-> Head(modalStore).newWidth,
                        height |-> Head(modalStore).newHeight]>>
                ELSE uploadedImgTargetRes
         /\ selections' = [selections EXCEPT
                               ![s].pc = "navigated",
                               ![s].response = IF resize THEN "resize" ELSE "keep"]
         /\ navigations' = Append(navigations,
                                  Navigation(s, uploadedImgBase64, uploadedImgFileName,
                                             uploadedImgTargetRes'))
    /\ modalStore' = Tail(modalStore)
    /\ UNCHANGED <<uploadedImgBase64, uploadedImgFileName, callVars>>

\* on:click of an example image, lines 273-277: the handler waits for
\* getImgDataFromUrl
example_onclick(s) ==
    /\ selections[s].pc = "idle"
    /\ \E example \in ExampleImages :
         selections' = [selections EXCEPT ![s] =
                            [pc |-> "fetching", kind |-> "example",
                             name |-> example.name, data |-> example.data,
                             decoded |-> example.decoded, response |-> "none"]]
    /\ UNCHANGED <<uploadedImgBase64, uploadedImgFileName, uploadedImgTargetRes,
                   modalStore, navigations, callVars>>

\* getImgDataFromUrl is resolved and the click handler goes on, lines 278-281
getImgDataFromUrl_resolved(s) ==
    /\ selections[s].pc = "fetching"
    /\ uploadedImgBase64' = <<selections[s].data>>
    /\ uploadedImgFileName' = imageName(selections[s].name)
    /\ uploadedImgTargetRes' = selections[s].decoded
    /\ navigations' = Append(navigations,
                             Navigation(s, uploadedImgBase64', uploadedImgFileName',
                                        uploadedImgTargetRes'))
    /\ selections' = [selections EXCEPT ![s].pc = "navigated"]
    /\ UNCHANGED <<modalStore, callVars>>

\* getImgDataFromUrl never resolves: the fetch fails, or the image has loaded
\* before reader.onloadend sets img.onload (lines 119-125)
getImgDataFromUrl_unresolved(s) ==
    /\ selections[s].pc = "fetching"
    /\ selections' = [selections EXCEPT ![s].pc = "failed"]
    /\ UNCHANGED <<uploadedImgBase64, uploadedImgFileName, uploadedImgTargetRes,
                   modalStore, navigations, callVars>>

\* one file upload on a freshly mounted home page
UploadNext ==
    \/ handleImageUpload(1)
    \/ reader_onload(1)
    \/ getImageResolution_onerror(1)
    \/ getImageResolution_onload(1)
    \/ modal_response(1)

UploadSpec == Init /\ [][UploadNext]_vars

\* two image selections started on the home page, their callbacks interleaved
PageNext ==
    \E s \in Selections :
        \/ handleImageUpload(s)
        \/ reader_onload(s)
        \/ getImageResolution_onerror(s)
        \/ getImageResolution_onload(s)
        \/ modal_response(s)
        \/ example_onclick(s)
        \/ getImgDataFromUrl_resolved(s)
        \/ getImgDataFromUrl_unresolved(s)

PageSpec == Init /\ [][PageNext]_vars

(***************************************************************************)
(* Properties.                                                             *)
(***************************************************************************)
\* product of the entries of a dims descriptor
RECURSIVE Product(_)
Product(dims) == IF dims = <<>> THEN 1 ELSE Head(dims) * Product(Tail(dims))

\* two grids have the same number of rows and equally long rows
SameShape(a, b) ==
    /\ Len(a) = Len(b)
    /\ \A y \in 1..Len(a) : Len(a[y]) = Len(b[y])

Called(f) == pc = "done" /\ op = f

\* C1: reshapeBufferToNCHW returns batchSize * 3 * W * H bytes, and byte
\* b*3*H*W + c*H*W + i of the result is byte i*3 + c of the HWC buffer, for every
\* batch slot b, channel c and pixel i
C1_NCHWLayout ==
    Called("reshapeBufferToNCHW") =>
        LET B == args.batchSize
            W == args.imageWidth
            H == args.imageHeight
        IN /\ result.status = "returned"
           /\ Len(result.value) = B * 3 * W * H
           /\ \A b \in 0..(B - 1) : \A c \in 0..2 : \A i \in 0..(W * H - 1) :
                  result.value[b * 3 * H * W + c * H * W + i + 1]
                      = args.rgbBuffer[i * 3 + c + 1]

\* C1 witness: a 2 x 3 image of two colours was laid out in two batch slots
C1_Witness ==
    /\ Called("reshapeBufferToNCHW")
    /\ args.batchSize = 2
    /\ args.imageWidth = 2
    /\ args.imageHeight = 3
    /\ args.rgbBuffer[1] # args.rgbBuffer[4]
    /\ Len(result.value) = 36

C4_RoundTrip ==
    /\ Called("RGB_CHW_array_to_imageData") =>
           /\ result.status = "returned"
           /\ result.value.width = args.imgData.width
           /\ result.value.height = args.imgData.height
           /\ Len(result.value.data) = 4 * args.imgData.width * args.imgData.height
           /\ \A i \in 0..(args.imgData.width * args.imgData.height - 1) :
                  /\ \A c \in 0..2 :
                         result.value.data[i * 4 + c + 1] = args.imgData.data[i * 4 + c + 1]
                  /\ result.value.data[i * 4 + 4] = 255
    /\ (Called("reshapeCHWtoHWC") /\ args.delta = 0) =>
           /\ result.status = "returned"
           /\ result.value = args.rgbBuffer

\* C4 witness: a 3 x 2 image with a red pixel and a translucent grey pixel went
\* through the pipeline
C4_Witness ==
    /\ Called("RGB_CHW_array_to_imageData")
    /\ args.imgData.width = 3
    /\ args.imgData.height = 2
    /\ args.imgData.data[1] = 255
    /\ args.imgData.data[8] = 40
    /\ result.status = "returned"
    /\ result.value.data[8] = 255

\* C5: every INPAINTING_RUN message carries tensors whose buffer length is the
\* product of their dims
C5_TensorLengthsMatchDims ==
    \A k \in 1..Len(posted) :
        /\ Len(posted[k].data.imageTensorData.data)
               = Product(posted[k].data.imageTensorData.dims)
        /\ Len(posted[k].data.maskTensorData.data)
               = Product(posted[k].data.maskTensorData.dims)

\* C7: runInpainting on masks of different shapes fails: no combined mask, no
\* message
C7_MismatchedMasksFail ==
    (/\ Called("runInpainting")
     /\ ~SameShape(args.currentEditorState.maskBrush,
                   args.currentEditorState.maskSAMDilated)) =>
        /\ result.status = "threw"
        /\ args.maskArrayCombined = Absent
        /\ posted = <<>>

\* C8: reshapeCHWtoHWC and imgDataToRGBArray fail on a buffer whose length
\* disagrees with the declared dimensions
C8_LengthMismatchFails ==
    /\ (/\ Called("reshapeCHWtoHWC")
        /\ Len(args.chwBuffer) # args.channels * args.width * args.height) =>
           result.status = "threw"
    /\ (/\ Called("imgDataToRGBArray")
        /\ Len(args.imgData.data) # 4 * args.imgData.width * args.imgData.height) =>
           result.status = "threw"

\* C9: on masks of the same shape the combination is the cell-wise OR: cell
\* (y, x) is true exactly when it is true in one of the masks; swapping the
\* masks gives the same grid and combining a mask with itself gives that mask
C9_CombineIsOr ==
    (/\ Called("runInpainting")
     /\ SameShape(args.currentEditorState.maskBrush,
                  args.currentEditorState.maskSAMDilated)) =>
        LET a == args.currentEditorState.maskBrush
            b == args.currentEditorState.maskSAMDilated
        IN /\ args.maskArrayCombined # Absent
           /\ SameShape(args.maskArrayCombined[1], a)
           /\ \A y \in 1..Len(a) : \A x \in 1..Len(a[y]) :
                  /\ args.maskArrayCombined[1][y][x] \in {"true", "false"}
                  /\ (args.maskArrayCombined[1][y][x] = "true")
                         <=> (a[y][x] = "true" \/ b[y][x] = "true")
           /\ maskArrayCombined(b, a) = Returned(args.maskArrayCombined[1])
           /\ maskArrayCombined(a, a) = Returned(a)
           /\ maskArrayCombined(b, b) = Returned(b)

\* C9 witness: two different 2 x 2 masks, each with a cell the other lacks, were
\* combined
C9_Witness ==
    /\ Called("runInpainting")
    /\ SameShape(args.currentEditorState.maskBrush,
                 args.currentEditorState.maskSAMDilated)
    /\ Len(args.currentEditorState.maskBrush) = 2
    /\ Len(args.currentEditorState.maskBrush[1]) = 2
    /\ args.currentEditorState.maskBrush[1][1] = "true"
    /\ args.currentEditorState.maskSAMDilated[1][1] = "false"
    /\ args.currentEditorState.maskBrush[2][2] = "false"
    /\ args.currentEditorState.maskSAMDilated[2][2] = "true"
    /\ args.currentEditorState.maskBrush[1][2] = "false"
    /\ args.currentEditorState.maskSAMDilated[1][2] = "false"
    /\ args.maskArrayCombined # Absent
    /\ posted # <<>>

\* C3: a decoder request for N clicks has point_coords dims [1, N+1, 2] and
\* point_labels dims [1, N+1]; entry k < N is click k scaled, labelled 1 when
\* positive and 0 when negative; entry N is the one padding point (0, 0) with
\* label -1
C3_PromptEncoding ==
    (Called("createDecoderInputDict") /\ result.status = "returned") =>
        LET clicked == args.currentEditorState.clickedPositions
            N == Len(clicked)
            coords == result.value.point_coords
            labels == result.value.point_labels
        IN /\ coords.dims = <<1, N + 1, 2>>
           /\ labels.dims = <<1, N + 1>>
           /\ Len(coords.data) = 2 * (N + 1)
           /\ Len(labels.data) = N + 1
           /\ \A k \in 1..N :
                  /\ coords.data[2 * k - 1]
                         = Quotient(clicked[k].x * args.resizedImgWidth,
                                    args.currentEditorState.imgData.width)
                  /\ coords.data[2 * k]
                         = Quotient(clicked[k].y * args.resizedImgHeight,
                                    args.currentEditorState.imgData.height)
                  /\ labels.data[k] = (IF clicked[k].type = "positive" THEN 1 ELSE 0)
           /\ coords.data[2 * N + 1] = Zero
           /\ coords.data[2 * N + 2] = Zero
           /\ labels.data[N + 1] = -1
           /\ \A k \in 1..N : labels.data[k] # -1

\* C3 witness: a request was built for a positive click followed by a negative
\* one at different places
C3_Witness ==
    /\ Called("createDecoderInputDict")
    /\ result.status = "returned"
    /\ Len(args.currentEditorState.clickedPositions) = 2
    /\ args.currentEditorState.clickedPositions[1].type = "positive"
    /\ args.currentEditorState.clickedPositions[2].type = "negative"
    /\ args.currentEditorState.clickedPositions[1].x = 1
    /\ args.currentEditorState.clickedPositions[2].x = 0
    /\ args.currentEditorState.clickedPositions[2].y = 1
    /\ args.currentEditorState.imgData.width = 2
    /\ result.value.point_labels.data = <<1, 0, -1>>

\* C6: with no cached embedding createDecoderInputDict throws and returns no
\* request; a returned request carries the cached embedding's data and dims
C6_EmbeddingPrecondition ==
    Called("createDecoderInputDict") =>
        /\ args.currentEditorState.currentImgEmbedding = Absent
               => result.status = "threw"
        /\ result.status = "returned" =>
               /\ args.currentEditorState.currentImgEmbedding # Absent
               /\ result.value.image_embeddings.data
                      = args.currentEditorState.currentImgEmbedding[1].data
               /\ result.value.image_embeddings.dims
                      = args.currentEditorState.currentImgEmbedding[1].dims

\* C6 witness: a request was asked for before any embedding was cached, with a
\* click already placed
C6_Witness ==
    /\ Called("createDecoderInputDict")
    /\ args.currentEditorState.currentImgEmbedding = Absent
    /\ Len(args.currentEditorState.clickedPositions) = 1
    /\ result.status = "threw"

\* n / d rounded to the nearest integer, a tie going up
RoundHalfUp(n, d) == (2 * n + d) \div (2 * d)

\* C10: the image getResizedImgData returns has its longer source side at
\* exactly longSideLength and the other side at round(longSideLength * short /
\* long); both are longSideLength for a square image
C10_ResizedDimensions ==
    (Called("getResizedImgData") /\ result.status = "returned") =>
        LET W == args.img.width
            H == args.img.height
            T == args.longSideLength
        IN IF W > H
           THEN /\ result.value.width = T
                /\ result.value.height = RoundHalfUp(T * H, W)
           ELSE /\ result.value.height = T
                /\ result.value.width = RoundHalfUp(T * W, H)

\* the stored resolution r is the original o scaled to a long side of 2000: the
\* longer side of o has become 2000 and the other side is within half a pixel of
\* 2000 * short / long
ScaledToLongSide(r, o) ==
    LET long == IF o.width >= o.height THEN o.width ELSE o.height
        short == IF o.width >= o.height THEN o.height ELSE o.width
        rLong == IF o.width >= o.height THEN r.width ELSE r.height
        rShort == IF o.width >= o.height THEN r.height ELSE r.width
        off == (rShort * long) - (2000 * short)
    IN /\ rLong = 2000
       /\ rShort <= 2000
       /\ 2 * off <= long
       /\ -(2 * off) <= long

\* C11: a single file upload navigates to the editor at most once, and exactly
\* once when its callbacks have run to the end; never while its confirm modal
\* waits for the user.  An image with a side above 2000 navigates only through
\* the modal's response, and the stored target resolution is then the image
\* scaled to a long side of 2000 if the user confirmed and the original size if
\* the user declined; an image with both sides at most 2000 triggers no modal
\* and navigates with its original size.
C11_UploadNavigatesOnce ==
    LET upload == selections[1]
        large == /\ upload.decoded # Absent
                 /\ (upload.decoded[1].width > 2000 \/ upload.decoded[1].height > 2000)
    IN /\ Len(navigations) <= 1
       /\ upload.pc # "navigated" => navigations = <<>>
       /\ modalStore # <<>> <=> upload.pc = "modal"
       /\ upload.pc = "modal" => large
       /\ upload.pc = "navigated" =>
            /\ Len(navigations) = 1
            /\ upload.decoded # Absent
            /\ uploadedImgTargetRes = navigations[1].uploadedImgTargetRes
            /\ IF large
               THEN \/ /\ upload.response = "keep"
                       /\ uploadedImgTargetRes = upload.decoded
                    \/ /\ upload.response = "resize"
                       /\ ScaledToLongSide(uploadedImgTargetRes[1], upload.decoded[1])
               ELSE /\ upload.response = "none"
                    /\ uploadedImgTargetRes = upload.decoded

\* a large upload has gone to the editor after the user confirmed the resize,
\* and the stored resolution is no longer the original one
C11_Witness ==
    /\ selections[1].pc = "navigated"
    /\ selections[1].response = "resize"
    /\ Len(navigations) = 1
    /\ navigations[1].uploadedImgTargetRes # selections[1].decoded

\* the stores, as a navigation found them, all describe the image of selection
\* s: its content, its name as that kind of selection stores it, and its size
\* (or, for an upload, the size the resize modal offered)
DescribesSelection(nav, s) ==
    LET sel == selections[s]
    IN /\ sel.pc \notin {"idle", "returned"}
       /\ nav.uploadedImgBase64 = <<sel.data>>
       /\ nav.uploadedImgFileName =
              IF sel.kind = "upload" THEN uploadedName(sel.name) ELSE imageName(sel.name)
       /\ sel.decoded # Absent
       /\ \/ nav.uploadedImgTargetRes = sel.decoded
          \/ /\ sel.kind = "upload"
             /\ nav.uploadedImgTargetRes =
                    <<[width |-> newWidth(sel.decoded[1].width, sel.decoded[1].height),
                       height |-> newHeight(sel.decoded[1].width, sel.decoded[1].height)]>>

\* C12: with two image selections under way, whenever navigation to the editor
\* is triggered the stored content, file name and target resolution are all
\* those of one and the same selection.
C12_StoresDescribeOneImage ==
    \A i \in DOMAIN navigations :
        \E s \in Selections : DescribesSelection(navigations[i], s)

====
